---- MODULE Spec2Model ----
(***************************************************************************)
(* Model of package sigprof (src/sigprof/sigprof.go): the dispatcher loop, *)
(* the sink factory newWriter, the profile engine pprofiler and the        *)
(* deferred stop goroutine of a CPU profile.                               *)
(*                                                                         *)
(* The dispatcher is one process whose position is pc.  Every goroutine    *)
(* started by cpuProfile is one more process, whose position is the g      *)
(* field of the sink it owns.  The signal source is either the blocking    *)
(* sender of the tests (an unbuffered channel fed by a goroutine and then  *)
(* closed) or newSigChan, where os/signal delivers without blocking and a  *)
(* signal that finds no waiting receiver is lost.                          *)
(*                                                                         *)
(* A sink is kept in sinks while somebody holds a reference to it: the     *)
(* dispatcher from s.writer() until profile() returns, the stop goroutine  *)
(* until it has closed the sink.  When the dispatcher lets go of a sink    *)
(* its record is copied to ret, when a goroutine does, to fin: nothing in  *)
(* the program can reach the sink afterwards.  ret is kept until the next  *)
(* sink is acquired, fin until the next CPU profile starts.                *)
(*                                                                         *)
(* The filesystem is private to the process: a temporary file exists from  *)
(* its creation until os.Remove is called on it.  closedStreams holds the  *)
(* standard streams of the process that a Close has closed.                *)
(***************************************************************************)
EXTENDS Integers, Sequences, FiniteSets, TLC

\* Bounds of the model.
MaxLen == 2        \* longest profile list configured for SIGUSR1
MaxSignals == 2    \* signals the source delivers or tries to deliver

Signals == {"SIGUSR1", "SIGUSR2", "SIGHUP"}
\* signal.Notify(c, syscall.SIGUSR1, syscall.SIGUSR2)
Notified == {"SIGUSR1", "SIGUSR2"}

\* "cpu" is the continuous profile, "heap" a profile pprof.Lookup knows,
\* "bogus" one it does not know.
ProfileNames == {"cpu", "heap", "bogus"}
KnownProfiles == {"heap"}

\* SIGPROF_OUT; "orange" stands for every unrecognized mode string.
Outputs == {"file", "stdout", "stderr", "orange"}

\* The lists SIGPROF_USR1 can give, and those taken for SIGPROF_USR2: its
\* default and the continuous profile.
Lists == UNION {[1..n -> ProfileNames] : n \in 0..MaxLen}
Usr2Lists == {<<"heap">>, <<"cpu">>}

VARIABLES
    usr1, usr2, output,   \* sigprof struct fields, fixed at construction
    blocking,             \* TRUE: blocking sender on an unbuffered channel
    sent,                 \* signals the source has tried to deliver, in order
    pending,              \* signal a blocked sender is waiting to hand over
    closed,               \* close(c) has been called
    recvd,                \* signals the loop has received, in order
    pc,                   \* position of the dispatcher
    sig,                  \* profileSignal: the recognized signal handled last
    profiles, i,          \* profileSignal: the list being ranged over, index
    w,                    \* profileSignal: id of the current capture's sink
    err,                  \* profile: result of writeProfile
    nSinks,               \* sinks the factory has produced so far
    sinks,                \* the sinks somebody holds, by id
    cpuProfiling,         \* runtime/pprof slot: 0 free, else the sink written
    events,               \* writer and engine calls made for sig, in order
    ret,                  \* the sink of the capture profile() returned from last
    fin,                  \* the sink the stop goroutine that ended last owned
    closedStreams         \* the standard streams of the process closed so far

vars == <<usr1, usr2, output, blocking, sent, pending, closed, recvd, pc, sig,
          profiles, i, w, err, nSinks, sinks, cpuProfiling, events, ret, fin,
          closedStreams>>

config == <<usr1, usr2, output, blocking>>
source == <<sent, pending, closed>>

None == "none"

\* A sink: its id, the profile it was made for, its kind, the name of the
\* file ioutil.TempFile created for it, whether its file exists, the
\* operations done on it so far, the result of the engine call on it and
\* the position of its stop goroutine.
NewSink(id, profile, kind, name) ==
    [id |-> id, profile |-> profile, kind |-> kind, name |-> name,
     exists |-> kind = "file", ops |-> <<>>, err |-> None, g |-> None]

\* The name of no file.
NoName == [prefix |-> <<>>, n |-> 0]

NoSink == NewSink(0, None, None, NoName)

Init ==
    /\ usr1 \in Lists
    /\ usr2 \in Usr2Lists
    /\ output \in Outputs
    /\ blocking \in BOOLEAN
    /\ sent = <<>>
    /\ pending = None
    /\ closed = FALSE
    /\ recvd = <<>>
    /\ pc = "recv"
    /\ sig = None
    /\ profiles = <<>>
    /\ i = 0
    /\ w = 0
    /\ err = "nil"
    /\ nSinks = 0
    /\ sinks = <<>>
    /\ cpuProfiling = 0
    /\ events = <<>>
    /\ ret = NoSink
    /\ fin = NoSink
    /\ closedStreams = {}

----------------------------------------------------------------------------
\* Helpers over the sinks.

Held == DOMAIN sinks

Put(f, id, r) == [x \in (DOMAIN f) \cup {id} |-> IF x = id THEN r ELSE f[x]]
Drop(f, id) == [x \in (DOMAIN f) \ {id} |-> f[x]]

Count(seq, x) == Cardinality({k \in 1..Len(seq) : seq[k] = x})

Closes(s) == Count(s.ops, "close")
Removes(s) == Count(s.ops, "remove")

\* Position of the first occurrence of x in seq, 0 when absent.
First(seq, x) ==
    IF \E k \in 1..Len(seq) : seq[k] = x
    THEN CHOOSE k \in 1..Len(seq) :
             seq[k] = x /\ \A j \in 1..(k - 1) : seq[j] # x
    ELSE 0

DoOp(s, op) == [s EXCEPT !.ops = Append(@, op)]

\* w.(*os.File)
IsFile(s) == s.kind = "file"

\* The records the model holds: the sinks still referenced and the two
\* released last.
Known == {sinks[id] : id \in Held} \cup ({ret, fin} \ {NoSink})

----------------------------------------------------------------------------
\* The signal source.

\* A sender that does not wait for the loop: s is lost unless the loop is in
\* the receive.
SendDropping(s) ==
    /\ blocking
    /\ ~closed
    /\ pending = None
    /\ Len(sent) < MaxSignals
    /\ pending' = IF pc = "recv" THEN s ELSE None
    /\ sent' = Append(sent, s)
    /\ UNCHANGED <<config, closed, recvd, pc, sig, profiles, i, w, err,
                   nSinks, sinks, cpuProfiling, events, ret, fin,
                   closedStreams>>

\* Test sender: `c <- sig` on an unbuffered channel; the sender blocks until
\* the loop receives.
Send(s) ==
    /\ blocking
    /\ ~closed
    /\ pending = None
    /\ Len(sent) < MaxSignals
    /\ pending' = s
    /\ sent' = Append(sent, s)
    /\ UNCHANGED <<config, closed, recvd, pc, sig, profiles, i, w, err,
                   nSinks, sinks, cpuProfiling, events, ret, fin,
                   closedStreams>>

\* Test sender: close(c) after its last send has been received.
Close ==
    /\ blocking
    /\ ~closed
    /\ pending = None
    /\ closed' = TRUE
    /\ UNCHANGED <<config, sent, pending, recvd, pc, sig, profiles, i, w,
                   err, nSinks, sinks, cpuProfiling, events, ret, fin,
                   closedStreams>>

\* profileSignal's switch: whether s is one of the two triggers, and the
\* list configured for it.
ProfilesForSwapped(s) ==
    IF s = "SIGUSR1" THEN [ok |-> TRUE, list |-> usr2]
    ELSE IF s = "SIGUSR2" THEN [ok |-> TRUE, list |-> usr1]
    ELSE [ok |-> FALSE, list |-> <<>>]

ProfilesForDefaultUsr1(s) ==
    IF s = "SIGUSR2" THEN [ok |-> TRUE, list |-> usr2]
    ELSE [ok |-> TRUE, list |-> usr1]

ProfilesFor(s) ==
    IF s = "SIGUSR1" THEN [ok |-> TRUE, list |-> usr1]
    ELSE IF s = "SIGUSR2" THEN [ok |-> TRUE, list |-> usr2]
    ELSE [ok |-> FALSE, list |-> <<>>]

\* The loop takes s from the channel and profileSignal resolves its list.
Handle(s) ==
    /\ recvd' = Append(recvd, s)
    /\ IF ProfilesFor(s).ok
       THEN /\ sig' = s
            /\ profiles' = ProfilesFor(s).list
            /\ events' = <<>>
            /\ i' = 1
            /\ pc' = IF Len(ProfilesFor(s).list) > 0 THEN "writer" ELSE "recv"
       ELSE UNCHANGED <<sig, profiles, events, i, pc>>

\* A loop that also takes a signal between two names of a list.
ReceiveBetweenNames ==
    /\ pc \in {"recv", "writer"}
    /\ pending # None
    /\ Handle(pending)
    /\ pending' = None
    /\ UNCHANGED <<config, sent, closed, w, err, nSinks, sinks, cpuProfiling,
                   ret, fin, closedStreams>>

\* loop: `sig, ok := <-c` with ok true, from a blocked sender.
Receive ==
    /\ pc = "recv"
    /\ pending # None
    /\ Handle(pending)
    /\ pending' = None
    /\ UNCHANGED <<config, sent, closed, w, err, nSinks, sinks, cpuProfiling,
                   ret, fin,
                   closedStreams>>

\* A loop that does not look at ok: it takes the zero value of the closed
\* channel for a signal, ignores it and receives again.
ReceiveClosedSpin ==
    /\ pc = "recv"
    /\ closed
    /\ pending = None
    /\ UNCHANGED vars

\* loop: `sig, ok := <-c` with ok false.
ReceiveClosed ==
    /\ pc = "recv"
    /\ closed
    /\ pending = None
    /\ pc' = "done"
    /\ UNCHANGED <<config, source, recvd, sig, profiles, i, w, err, nSinks,
                   sinks, cpuProfiling, events, ret, fin,
                   closedStreams>>

\* newSigChan: os/signal hands s over only if the loop is waiting in the
\* receive; otherwise the signal is lost.
Notify(s) ==
    /\ ~blocking
    /\ Len(sent) < MaxSignals
    /\ sent' = Append(sent, s)
    /\ IF pc = "recv"
       THEN Handle(s)
       ELSE UNCHANGED <<recvd, pc, sig, profiles, i, events>>
    /\ UNCHANGED <<config, pending, closed, w, err, nSinks, sinks,
                   cpuProfiling, ret, fin,
                   closedStreams>>

----------------------------------------------------------------------------
\* The sink factory.

\* newWriter's switch on the output mode; fileOk is the outcome of
\* ioutil.TempFile.
NewWriterKindNoFallback(out, fileOk) ==
    IF out = "file" THEN "file"
    ELSE IF out = "stdout" THEN "stdout"
    ELSE "stderr"

\* A switch that takes the empty mode for "file", as newSigprof does.
NewWriterKindEmptyIsFile(out, fileOk) ==
    IF out \in {"file", ""} THEN (IF fileOk THEN "file" ELSE "stderr")
    ELSE IF out = "stdout" THEN "stdout"
    ELSE "stderr"

NewWriterKind(out, fileOk) ==
    IF out = "file" THEN (IF fileOk THEN "file" ELSE "stderr")
    ELSE IF out = "stdout" THEN "stdout"
    ELSE IF out = "stderr" THEN "stderr"
    ELSE "stderr"

\* newWriter: the name of the file the n-th call creates for profile, the
\* prefix `<base>.<profile>.prof.` completed by ioutil.TempFile with a part
\* of its own; no name when no file is created.
TempFileNameNoProfile(out, profile, n, fileOk) ==
    IF out = "file" /\ fileOk
    THEN [prefix |-> <<"base", "prof">>, n |-> n]
    ELSE NoName

TempFileName(out, profile, n, fileOk) ==
    IF out = "file" /\ fileOk
    THEN [prefix |-> <<"base", profile, "prof">>, n |-> n]
    ELSE NoName

\* profileSignal: `w := s.writer(profile)`.
Writer ==
    /\ pc = "writer"
    /\ \E fileOk \in BOOLEAN :
         LET id == nSinks + 1
             s == NewSink(id, profiles[i], NewWriterKind(output, fileOk),
                          TempFileName(output, profiles[i], id, fileOk))
         IN  /\ sinks' = Put(sinks, id, s)
             /\ w' = id
             /\ nSinks' = id
             /\ events' = Append(events, [op |-> "writer",
                                          name |-> profiles[i], sink |-> id])
    /\ pc' = "engine"
    /\ ret' = NoSink
    /\ UNCHANGED <<config, source, recvd, sig, profiles, i, err,
                   cpuProfiling, fin,
                   closedStreams>>

----------------------------------------------------------------------------
\* The profile engine.

\* pprof.StartCPUProfile fails exactly when a CPU profile is running.
StartCPUProfileNoCheck(slot) == TRUE

StartCPUProfile(slot) == slot = 0

\* A cpuProfile that goes on after a failed pprof.StartCPUProfile.
WriteProfileErrIgnoreStart(profileName, slot, writeOk) ==
    IF profileName = "cpu" THEN "nil"
    ELSE IF profileName \notin KnownProfiles THEN "lookup"
    ELSE IF writeOk THEN "nil" ELSE "write"

\* A writeProfile that does not check the result of pprof.Lookup.
WriteProfileErrNoLookup(profileName, slot, writeOk) ==
    IF profileName = "cpu"
    THEN (IF StartCPUProfile(slot) THEN "nil" ELSE "start")
    ELSE IF writeOk THEN "nil" ELSE "write"

\* The error writeProfile returns for profileName; writeOk is the outcome of
\* prof.WriteTo on the sink.
WriteProfileErr(profileName, slot, writeOk) ==
    IF profileName = "cpu"
    THEN (IF StartCPUProfile(slot) THEN "nil" ELSE "start")
    ELSE IF profileName \notin KnownProfiles THEN "lookup"
    ELSE IF writeOk THEN "nil" ELSE "write"

\* profile's branch after the engine call: the failure cleanup for a file
\* sink, the ordinary close otherwise.
AfterEngineNoCleanup(e, s) == "close"

\* A cleanup that does not look at err.
AfterEngineCleanupAll(e, s) == IF IsFile(s) THEN "fclose" ELSE "close"

AfterEngine(e, s) ==
    IF e # "nil" /\ IsFile(s) THEN "fclose" ELSE "close"

\* profile: `err := p.writeProfile(w, profileName)`, with cpuProfile's start
\* of the stop goroutine.
Engine ==
    /\ pc = "engine"
    /\ \E writeOk \in BOOLEAN :
         LET name == profiles[i]
             e == WriteProfileErr(name, cpuProfiling, writeOk)
             started == name = "cpu" /\ e = "nil"
             wrote == name # "cpu" /\ e \in {"nil", "write"}
             s == [sinks[w] EXCEPT !.err = e]
         IN  /\ err' = e
             /\ cpuProfiling' = IF started THEN w ELSE cpuProfiling
             /\ sinks' = [sinks EXCEPT ![w] =
                            IF started THEN [DoOp(s, "start") EXCEPT !.g = "sleep"]
                            ELSE IF wrote THEN DoOp(s, "write")
                            ELSE s]
             /\ events' = Append(events, [op |-> "engine", name |-> name,
                                          sink |-> w])
             /\ pc' = AfterEngine(e, sinks[w])
             /\ fin' = IF started THEN NoSink ELSE fin
    /\ UNCHANGED <<config, source, recvd, sig, profiles, i, w, nSinks, ret,
                   closedStreams>>

\* profileSignal's range: the next name of the list, or back to the loop.
NextPcStop(k, list, e) ==
    IF k < Len(list) /\ e = "nil" THEN "writer" ELSE "recv"

NextPc(k, list, e) ==
    IF k < Len(list) THEN "writer" ELSE "recv"

\* profile returns with the sink in state s: the dispatcher drops w; the
\* sink stays held only by a stop goroutine that has not finished.
Return(s) ==
    /\ pc' = NextPc(i, profiles, err)
    /\ i' = i + 1
    /\ ret' = s
    /\ sinks' = IF s.g = "sleep" THEN [sinks EXCEPT ![w] = s]
                ELSE Drop(sinks, w)

\* The standard streams a Close on a sink of this kind closes: the Close of
\* stdoutWriter and of stderrWriter returns nil and does nothing else, the
\* Close of an *os.File closes that file.
StreamsClosedByWrapper(kind) ==
    IF kind \in {"stdout", "stderr"} THEN {kind} ELSE {}

StreamsClosedBy(kind) == {}

\* profile, failure cleanup: `err = f.Close()`.
FailClose ==
    /\ pc = "fclose"
    /\ sinks' = [sinks EXCEPT ![w] = DoOp(@, "close")]
    /\ closedStreams' = closedStreams \cup StreamsClosedBy(sinks[w].kind)
    /\ pc' = "remove"
    /\ UNCHANGED <<config, source, recvd, sig, profiles, i, w, err, nSinks,
                   cpuProfiling, events, ret, fin>>

\* profile: `if profileName != "cpu" { w.Close() }`.
ShouldCloseAlways(profileName) == TRUE

ShouldCloseNever(profileName) == FALSE

ShouldClose(profileName) == profileName # "cpu"

\* profile, failure cleanup: the `return` that ends it leaves the sink s as
\* it is.
CleanupTailFallThrough(s, profileName) ==
    IF ShouldClose(profileName) THEN DoOp(s, "close") ELSE s

CleanupTail(s, profileName) == s

\* profile, failure cleanup: `err = os.Remove(f.Name())` and return.
Remove ==
    /\ pc = "remove"
    /\ Return(CleanupTail([DoOp(sinks[w], "remove") EXCEPT !.exists = FALSE],
                          profiles[i]))
    /\ UNCHANGED <<config, source, recvd, sig, profiles, w, err, nSinks,
                   cpuProfiling, events, fin,
                   closedStreams>>

\* A profile() that returns from a started CPU profile only once the
\* profile has been stopped.
CloseSinkAfterStop ==
    /\ pc = "close"
    /\ (w \in Held /\ sinks[w].g # "sleep")
    /\ Return(IF ShouldClose(profiles[i]) THEN DoOp(sinks[w], "close")
              ELSE sinks[w])
    /\ closedStreams' = IF ShouldClose(profiles[i])
                        THEN closedStreams \cup StreamsClosedBy(sinks[w].kind)
                        ELSE closedStreams
    /\ UNCHANGED <<config, source, recvd, sig, profiles, w, err, nSinks,
                   cpuProfiling, events, fin>>

\* profile: the close that ends it, and return.
CloseSink ==
    /\ pc = "close"
    /\ Return(IF ShouldClose(profiles[i]) THEN DoOp(sinks[w], "close")
              ELSE sinks[w])
    /\ closedStreams' = IF ShouldClose(profiles[i])
                        THEN closedStreams \cup StreamsClosedBy(sinks[w].kind)
                        ELSE closedStreams
    /\ UNCHANGED <<config, source, recvd, sig, profiles, w, err, nSinks,
                   cpuProfiling, events, fin>>

----------------------------------------------------------------------------
\* The stop goroutine of cpuProfile, one per started CPU profile.

\* time.Sleep(cpuProfileDuration) returns; pprof.StopCPUProfile() stops
\* whichever profile is running; `err := w.Close()`.  The sink belongs to
\* the goroutine alone, so the three are one step.
DeferredStop(id) ==
    /\ id \in Held
    /\ sinks[id].g = "sleep"
    /\ cpuProfiling' = 0
    /\ closedStreams' = closedStreams \cup StreamsClosedBy(sinks[id].kind)
    /\ LET s == [DoOp(DoOp(sinks[id], "stop"), "close") EXCEPT !.g = "done"]
       IN  /\ fin' = s
           /\ sinks' = IF id = w /\ pc \in {"fclose", "remove", "close"}
                       THEN [sinks EXCEPT ![id] = s]
                       ELSE Drop(sinks, id)
    /\ UNCHANGED <<config, source, recvd, pc, sig, profiles, i, w, err,
                   nSinks, events, ret>>

----------------------------------------------------------------------------

Dispatcher ==
    \/ Receive
    \/ ReceiveClosed
    \/ Writer
    \/ Engine
    \/ FailClose
    \/ Remove
    \/ CloseSink

\* Stop goroutines that do not outlive the loop.
StopperWhileLoopRuns == \E id \in 1..nSinks : pc # "done" /\ DeferredStop(id)

Stopper == \E id \in 1..nSinks : DeferredStop(id)

Source ==
    \/ \E s \in Signals : Send(s)
    \/ Close
    \/ \E s \in Notified : Notify(s)

Next == Dispatcher \/ Stopper \/ Source

Spec == Init /\ [][Next]_vars

\* The scheduler runs the dispatcher whenever it can take a step.  Checked
\* in file mode, where a sink is a file or, when ioutil.TempFile fails, the
\* standard error wrapper.
FairInit == Init /\ output = "file"

FairSpec == FairInit /\ [][Next]_vars /\ WF_vars(Dispatcher)

\* The timer of a stop goroutine fires: time.Sleep(cpuProfileDuration)
\* returns and the scheduler runs the goroutine.
TimerFairSpec == FairInit /\ [][Next]_vars /\ WF_vars(Stopper)

----------------------------------------------------------------------------
\* Properties.

\* The list the configuration gives a trigger.
Configured(s) == IF s = "SIGUSR1" THEN usr1 ELSE usr2

\* The calls handling a trigger with list l makes when the first sink it
\* acquires is number first: for each name, s.writer then the engine.
EventsOf(l, first) ==
    [k \in 1..(2 * Len(l)) |->
        [op |-> IF k % 2 = 1 THEN "writer" ELSE "engine",
         name |-> l[(k + 1) \div 2],
         sink |-> first + ((k + 1) \div 2) - 1]]

Writers(ev) == Cardinality({k \in 1..Len(ev) : ev[k].op = "writer"})

IsPrefix(a, b) == Len(a) <= Len(b) /\ a = SubSeq(b, 1, Len(a))

\* The dispatcher is between two signals.
Idle == pc \in {"recv", "done"}

\* C1: handling one received SIGUSR1 or SIGUSR2 makes one capture attempt per
\* entry of the list configured for it (one sink acquisition followed by one
\* engine call on that sink), in the order of the list, duplicates included:
\* the calls made so far are always a prefix of that series, and the whole
\* series once the signal has been handled.
C1_AttemptsFollowList ==
    sig # None =>
        LET expected == EventsOf(Configured(sig), nSinks - Writers(events) + 1)
        IN  /\ IsPrefix(events, expected)
            /\ Idle => events = expected

C1_Witness ==
    /\ Idle
    /\ sig = "SIGUSR1"
    /\ Len(usr1) = 2
    /\ usr1[1] = usr1[2]
    /\ usr2 # usr1
    /\ Len(events) = 4

\* C2: once profile() has returned and the stop goroutine, if one was
\* started, has run, the sink of the capture has been closed, whatever its
\* kind and whatever the outcome of the capture.
C2_NoSinkLeftOpen ==
    /\ (ret # NoSink /\ ret.g # "sleep") => Closes(ret) >= 1
    /\ fin # NoSink => Closes(fin) >= 1

\* C3: no sink is closed more than once, by the failure cleanup, the
\* ordinary close and the stop goroutine between them.
C3_ClosedAtMostOnce == \A s \in Known : Closes(s) <= 1

C3_Witness ==
    /\ fin # NoSink
    /\ Closes(fin) = 1
    /\ ret # NoSink
    /\ IsFile(ret)
    /\ ret.err = "write"
    /\ Closes(ret) = 1

\* C4: when profile() returns from a capture on a file whose engine call
\* failed, the file has been closed exactly once, then removed, and does not
\* exist any more.
C4_FailedFileCleanedUp ==
    (ret # NoSink /\ IsFile(ret) /\ ret.err \notin {None, "nil"}) =>
        /\ Closes(ret) = 1
        /\ Removes(ret) = 1
        /\ First(ret.ops, "close") < First(ret.ops, "remove")
        /\ ~ret.exists

C4_Witness ==
    /\ ret # NoSink
    /\ IsFile(ret)
    /\ ret.err = "start"
    /\ ~ret.exists

\* The CPU profiles that are running: started and not yet stopped.
Running == {id \in Held : sinks[id].g = "sleep"}

C5_AtMostOne ==
    /\ Cardinality(Running) <= 1
    /\ Running = IF cpuProfiling = 0 THEN {} ELSE {cpuProfiling}

C5_Start ==
    (pc = "engine" /\ pc' # "engine" /\ profiles[i] = "cpu") =>
        IF cpuProfiling # 0
        THEN /\ err' = "start"
             /\ cpuProfiling' = cpuProfiling
             /\ sinks'[cpuProfiling] = sinks[cpuProfiling]
             /\ sinks'[w].g = None
             /\ pc' \in {"fclose", "close"}
        ELSE /\ err' = "nil"
             /\ cpuProfiling' = w
             /\ sinks'[w].g = "sleep"

\* C5: at most one CPU profile is running at any instant; a start attempted
\* while one is running fails in that very call, leaves the running profile
\* as it is and lets the dispatcher go on; a start attempted while none is
\* running (the previous one has been stopped) succeeds.
C5_Exclusive == []C5_AtMostOne /\ [][C5_Start]_vars

\* Sink 1 was started and stopped, sink 3 started after that and is running,
\* the start on sink 4 failed.
C5_Witness ==
    /\ usr1 = <<"cpu", "cpu">>
    /\ recvd = <<"SIGUSR1", "SIGUSR1">>
    /\ cpuProfiling = 3
    /\ ret.id = 4
    /\ ret.err = "start"

\* C6: the dispatcher never closes the sink of a CPU profile that started:
\* while the profile runs nothing but the start has been done on the sink,
\* and the stop goroutine stops the profile and then closes the sink, once.
\* When profile() returns the sink is open, unless the stop goroutine has
\* already run.
C6_ClosedOnlyByStop ==
    \A s \in Known :
        (s.profile = "cpu" /\ s.err = "nil") =>
            \/ s.g = "sleep" /\ s.ops = <<"start">>
            \/ s.g = "done" /\ s.ops = <<"start", "stop", "close">>

\* C6 as claimed: the same, and the sink is still open whenever profile()
\* returns.
C6_OpenAtReturn ==
    /\ C6_ClosedOnlyByStop
    /\ (ret # NoSink /\ ret.profile = "cpu" /\ ret.err = "nil") =>
           Closes(ret) = 0

C6_Witness ==
    /\ ret # NoSink
    /\ ret.profile = "cpu"
    /\ ret.err = "nil"
    /\ ret.g = "sleep"
    /\ IsFile(ret)
    /\ pc = "recv"

\* profile() has just returned from a capture that failed: w still names
\* its sink.
JustFailed == ret # NoSink /\ ret.id = w /\ ret.err \notin {None, "nil"}

C7_Continues ==
    JustFailed =>
        /\ pc \in {"writer", "recv", "done"}
        /\ pc = "writer" <=> i <= Len(profiles)
        /\ Len(events) = 2 * (i - 1)
        /\ nSinks = ret.id
        /\ pc = "done" => closed

C7_NoAbort == (pc # "done" /\ pc' = "done") => (pc = "recv" /\ closed)

\* C7: a failed capture (unknown name, write failure, failed CPU start)
\* stops nothing but itself: the dispatcher goes on with the next name of
\* the list if there is one and back to waiting for signals otherwise, the
\* failed name is not attempted again, and the loop ends only on a closed
\* source.
C7_FailureIsLocal == []C7_Continues /\ [][C7_NoAbort]_vars

C7_Witness ==
    /\ JustFailed
    /\ ret.err = "lookup"
    /\ pc = "writer"
    /\ i = 2
    /\ Len(recvd) = 2

C8_DoneOnlyWhenClosed ==
    pc = "done" => (closed /\ pending = None /\ recvd = sent)

C8_DoneIsFinal ==
    pc = "done" =>
        /\ pc' = "done"
        /\ nSinks' = nSinks
        /\ events' = events
        /\ UNCHANGED <<recvd, w, ret>>

\* C8: loop() returns exactly when the source has been closed: it has not
\* returned while the source is open or a sent signal is unconsumed, it does
\* return once the source is closed, and after it has returned no sink is
\* acquired and no capture attempted.
C8_TerminatesIffClosed ==
    /\ []C8_DoneOnlyWhenClosed
    /\ [][C8_DoneIsFinal]_vars
    /\ (closed ~> pc = "done")

C8_Witness ==
    /\ pc = "done"
    /\ Len(recvd) = 2
    /\ nSinks >= 2
    /\ cpuProfiling # 0

\* The loop has just taken an unrecognized signal from the channel.
TookOther ==
    /\ Len(recvd') = Len(recvd) + 1
    /\ recvd'[Len(recvd')] \notin {"SIGUSR1", "SIGUSR2"}

\* C9: receiving a signal other than SIGUSR1 and SIGUSR2 acquires no sink,
\* calls no engine and changes nothing; the loop waits for the next signal.
C9_OtherIgnored ==
    [][TookOther =>
         /\ pc' = "recv"
         /\ UNCHANGED <<pc, sig, profiles, i, w, err, nSinks, sinks,
                        cpuProfiling, events, ret, fin, closedStreams>>]_vars

C9_Witness ==
    /\ recvd = <<"SIGHUP", "SIGUSR1">>
    /\ Len(usr1) > 0
    /\ Idle
    /\ nSinks = Len(usr1)

RECURSIVE SumLists(_)
\* The number of names configured for the signals of seq.
SumLists(seq) ==
    IF seq = <<>> THEN 0
    ELSE (IF Head(seq) \in {"SIGUSR1", "SIGUSR2"}
          THEN Len(Configured(Head(seq))) ELSE 0) + SumLists(Tail(seq))

\* The signals a blocking sender has handed over.
Delivered ==
    IF pending = None THEN sent ELSE SubSeq(sent, 1, Len(sent) - 1)

\* C10: with the blocking sender no signal is lost and no sink is used
\* twice: the loop receives the signals in the order they were sent, the
\* sinks created are as many as the names configured for the signals
\* handled (all the signals sent, once the loop has returned), and every
\* sink is handed to the engine once at most.
C10_NothingDropped ==
    /\ blocking => recvd = Delivered
    /\ (blocking /\ Idle) => nSinks = SumLists(recvd)
    /\ (blocking /\ pc = "done") => nSinks = SumLists(sent)
    /\ \A s \in Known : Count(s.ops, "write") + Count(s.ops, "start") <= 1
    /\ \A j, k \in 1..Len(events) :
           (j < k /\ events[j].sink = events[k].sink) =>
               (k = j + 1 /\ events[j].op = "writer" /\ events[k].op = "engine")

C10_Witness ==
    /\ blocking
    /\ pc = "done"
    /\ sent = <<"SIGUSR1", "SIGUSR2">>
    /\ Len(usr1) = 1
    /\ Len(usr2) = 1
    /\ nSinks = 2

----------------------------------------------------------------------------
\* The capture the dispatcher is in the middle of: its sink has been
\* acquired and profile() has not returned.
InCapture == pc \in {"engine", "fclose", "remove", "close"}

\* The sinks the dispatcher holds: all but those left to a stop goroutine.
DispatcherSinks == {id \in Held : sinks[id].g # "sleep" \/ (id = w /\ InCapture)}

C11_OneAtATime ==
    /\ DispatcherSinks \subseteq {w}
    /\ DispatcherSinks # {} => InCapture
    /\ Idle => DispatcherSinks = {}

C11_TakenOnlyWhenIdle ==
    /\ recvd' # recvd =>
           /\ pc = "recv"
           /\ DispatcherSinks = {}
           /\ sig # None => events = EventsOf(Configured(sig),
                                               nSinks - Writers(events) + 1)
    /\ (pending # None /\ pc # "recv") =>
           /\ pending' = pending
           /\ recvd' = recvd
           /\ sent' = sent
           /\ ~closed'
    /\ (pc # "recv" /\ pc' # "recv") => (sig' = sig /\ profiles' = profiles)

\* C11: signals are handled one after the other.  The loop takes a signal
\* only while it waits in the receive, when every capture attempt of the
\* previous signal has been made and its sink let go of; a sender blocked on
\* the unbuffered channel stays blocked, its signal untaken, for as long as
\* the dispatcher is busy; and the dispatcher holds one sink at most, that
\* of the capture it is in, so captures of different signals never
\* interleave.
C11_Serialized == []C11_OneAtATime /\ [][C11_TakenOnlyWhenIdle]_vars

\* The sender of the second signal is blocked while the second name of the
\* first signal's list is being captured.
C11_Witness ==
    /\ blocking
    /\ pending # None
    /\ Len(recvd) = 1
    /\ Len(sent) = 2
    /\ InCapture
    /\ i = 2

\* A CPU profile started by an earlier capture is running while the
\* dispatcher is past that capture.
RunningBehind == \E id \in Running : id < w \/ (id = w /\ ~InCapture)

\* C12: a running CPU profile does not hold the dispatcher back.  The engine
\* call that starts it returns at once, and while the dispatcher is handling
\* a signal it can always take its next step, whether or not a CPU profile
\* started earlier is still running with its sink open.
C12_NotBlocked ==
    /\ ~Idle => ENABLED Dispatcher
    /\ (pc = "recv" /\ (pending # None \/ closed)) => ENABLED Dispatcher

\* The loop handles the capture of a later signal while the profile started
\* for the first one is running, its sink open.
C12_Witness ==
    /\ RunningBehind
    /\ InCapture
    /\ Len(recvd) = 2
    /\ cpuProfiling = 1
    /\ sinks[1].ops = <<"start">>
    /\ w > 1

\* The loop has returned while the profile is running.
C12_WitnessDone ==
    /\ pc = "done"
    /\ RunningBehind

\* A step that takes a CPU profile out of Running is the stop goroutine's:
\* the collection is stopped, then the sink closed, the slot is free, and
\* the dispatcher has not moved.
C13_OnlyStopEnds ==
    \A id \in Running :
        (id \notin Held' \/ sinks'[id].g # "sleep") =>
            /\ cpuProfiling = id
            /\ cpuProfiling' = 0
            /\ fin'.id = id
            /\ fin'.g = "done"
            /\ fin'.ops = <<"start", "stop", "close">>
            /\ UNCHANGED <<pc, i, w, recvd, events, nSinks>>

\* C13: every CPU profile that started stops.  Given that its timer fires,
\* a running profile is eventually stopped, its sink closed and the slot
\* released, also when the loop has already returned; and nothing but
\* the stop goroutine takes a profile out of Running.
C13_EventuallyStopped ==
    /\ [][C13_OnlyStopEnds]_vars
    /\ (cpuProfiling # 0) ~> (cpuProfiling = 0 /\ fin.g = "done" /\ Closes(fin) = 1)
    /\ (pc = "done" /\ cpuProfiling # 0) ~> (pc = "done" /\ cpuProfiling = 0)

\* The loop returned while the profile was running (it was running when
\* profile() returned and is the last capture made), and the profile has
\* been stopped nonetheless.
C13_Witness ==
    /\ pc = "done"
    /\ ret.g = "sleep"
    /\ ret.id = nSinks
    /\ fin.id = ret.id
    /\ fin.ops = <<"start", "stop", "close">>
    /\ cpuProfiling = 0

\* The names the engine does not know: not "cpu" and not a profile
\* pprof.Lookup finds.
Unknown(name) == name # "cpu" /\ name \notin KnownProfiles

C14_UnknownFails ==
    \A s \in Known :
        Unknown(s.profile) =>
            /\ s.err \in {None, "lookup"}
            /\ Count(s.ops, "write") = 0
            /\ Count(s.ops, "start") = 0
            /\ s.g = None

C14_NothingLeft ==
    (ret # NoSink /\ Unknown(ret.profile)) =>
        /\ ret.err = "lookup"
        /\ ~ret.exists
        /\ ret.ops = IF IsFile(ret) THEN <<"close", "remove">> ELSE <<"close">>
        /\ ret.id \notin Held

\* The list goes on after an unknown name, and a known name of the same
\* list is captured whatever came before it.
C14_OthersCaptured ==
    /\ (JustFailed /\ ret.err = "lookup") =>
           (IF i <= Len(profiles) THEN pc = "writer" ELSE Idle)
    /\ (ret # NoSink /\ ret.profile \in KnownProfiles) =>
           /\ ret.err \in {"nil", "write"}
           /\ Count(ret.ops, "write") = 1

\* C14: a capture of a name that is not "cpu" and that the engine does not
\* know fails without a write to its sink and without a goroutine, and when
\* profile() returns from it nothing is left: the sink has been closed and,
\* when it is a file, the file removed, before the next name is handled;
\* the other names of the list are captured as usual.
C14_UnknownLeavesNothing ==
    /\ C14_UnknownFails
    /\ C14_NothingLeft
    /\ C14_OthersCaptured

\* In file mode the unknown name came first and its file is gone; the known
\* name after it has been captured into a file that is kept.
C14_Witness ==
    /\ output = "file"
    /\ profiles = <<"bogus", "heap">>
    /\ Idle
    /\ ret.id = 2
    /\ ret.err = "nil"
    /\ IsFile(ret)
    /\ ret.exists
    /\ events[1].name = "bogus"

\* C15: when profile() returns from a point-in-time capture that succeeded,
\* the sink has been written once and then closed once, by the dispatcher
\* and before it acquires the next sink; a file sink has not been removed
\* and its file exists.
C15_ClosedOnceAndKept ==
    /\ (ret # NoSink /\ ret.profile # "cpu" /\ ret.err = "nil") =>
           /\ ret.ops = <<"write", "close">>
           /\ Closes(ret) = 1
           /\ Removes(ret) = 0
           /\ ret.exists = IsFile(ret)
           /\ ret.id \notin Held
    /\ pc = "writer" =>
           \A s \in Known :
               (s.profile # "cpu" /\ s.err = "nil") => Closes(s) = 1

\* A file written and closed, the next name of the list not yet started.
C15_Witness ==
    /\ ret # NoSink
    /\ ret.profile = "heap"
    /\ ret.err = "nil"
    /\ IsFile(ret)
    /\ ret.exists
    /\ ret.ops = <<"write", "close">>
    /\ pc = "writer"
    /\ nSinks = ret.id

----------------------------------------------------------------------------
\* newWriter as a function of the mode string: the loop run on a sigprof
\* whose output field is any mode string, the empty one included (newSigprof
\* replaces an empty SIGPROF_OUT by "file"; a sigprof built by hand, as in
\* the tests, and a direct call of newWriter do not).
Modes == Outputs \cup {""}

WriterInit ==
    /\ usr1 \in Lists
    /\ usr2 = <<"heap">>
    /\ output \in Modes
    /\ blocking \in BOOLEAN
    /\ sent = <<>>
    /\ pending = None
    /\ closed = FALSE
    /\ recvd = <<>>
    /\ pc = "recv"
    /\ sig = None
    /\ profiles = <<>>
    /\ i = 0
    /\ w = 0
    /\ err = "nil"
    /\ nSinks = 0
    /\ sinks = <<>>
    /\ cpuProfiling = 0
    /\ events = <<>>
    /\ ret = NoSink
    /\ fin = NoSink
    /\ closedStreams = {}

WriterSpec == WriterInit /\ [][Next]_vars

\* The kind of every sink follows from the mode; "file" gives a file, or
\* the standard error wrapper when no file could be created.
C16_KindByMode ==
    \A s \in Known :
        /\ output = "stdout" => s.kind = "stdout"
        /\ output = "stderr" => s.kind = "stderr"
        /\ output \notin {"file", "stdout", "stderr"} => s.kind = "stderr"
        /\ output = "file" => s.kind \in {"file", "stderr"}
        /\ s.kind = "file" <=> s.name # NoName
        /\ s.kind # "file" => (~s.exists /\ Removes(s) = 0)

\* Every file is a new one and its name has the profile name in it, the
\* name of the capture it is acquired for.
C16_FileNames ==
    /\ \A s \in Known :
           IsFile(s) =>
               \E k \in 1..Len(s.name.prefix) : s.name.prefix[k] = s.profile
    /\ \A s, t \in Known :
           (IsFile(s) /\ IsFile(t) /\ s.id # t.id) => s.name # t.name
    /\ InCapture => sinks[w].profile = profiles[i]

\* C16: the sink newWriter gives is the standard output wrapper for mode
\* "stdout" and the standard error wrapper for mode "stderr" and for every
\* mode string that is not "file", "stdout" or "stderr", the empty string
\* included, whatever the profile name; closing a wrapper closes no
\* standard stream; mode "file" gives a new file at each call, with the
\* profile name in its name.
C16_SinkByMode ==
    /\ C16_KindByMode
    /\ C16_FileNames
    /\ closedStreams = {}

\* With the empty mode string a capture wrote to the standard error wrapper,
\* which has been closed.
C16_Witness ==
    /\ output = ""
    /\ ret # NoSink
    /\ ret.kind = "stderr"
    /\ ret.ops = <<"write", "close">>
    /\ closedStreams = {}

\* The same with the standard output wrapper, and two files of one name.
C16_WitnessStdout ==
    /\ output = "stdout"
    /\ ret # NoSink
    /\ ret.kind = "stdout"
    /\ ret.ops = <<"write", "close">>

C16_WitnessFiles ==
    /\ cpuProfiling = 1
    /\ ret.id = 2
    /\ IsFile(ret)
    /\ ret.profile = "cpu"
    /\ ret.name # sinks[1].name

----------------------------------------------------------------------------
\* In file mode, s is the sink newWriter gave when ioutil.TempFile failed.
Fallback(s) == output = "file" /\ s.name = NoName

\* The engine calls made on sink id for the signal being handled.
EngineCalls(id) ==
    Cardinality({k \in 1..Len(events) :
                     events[k].op = "engine" /\ events[k].sink = id})

C17_FallbackIsStderr ==
    \A s \in Known :
        Fallback(s) =>
            /\ s.kind = "stderr"
            /\ ~s.exists
            /\ Removes(s) = 0

C17_CaptureProceeds ==
    /\ (InCapture /\ Fallback(sinks[w])) =>
           EngineCalls(w) = (IF pc = "engine" THEN 0 ELSE 1)
    /\ (ret # NoSink /\ ret.id = w /\ Fallback(ret)) =>
           /\ events # <<>> => EngineCalls(w) = 1
           /\ ret.err # None
           /\ ret.err = "nil" =>
                  ret.ops \in {<<"write", "close">>, <<"start">>,
                               <<"start", "stop", "close">>}
           /\ ret.err = "write" => ret.ops = <<"write", "close">>
           /\ ret.err = "lookup" => ret.ops = <<"close">>
           /\ ret.err = "start" => ret.ops = <<>>
    /\ (pc \in {"fclose", "remove"}) => ~Fallback(sinks[w])

\* C17: in file mode, when the temporary file cannot be created the sink is
\* the standard error wrapper and the capture is made on it all the same:
\* the engine is called once on that sink, and when the capture fails the
\* dispatcher does not enter the file cleanup, so that nothing is removed.
C17_FallbackToStderr ==
    /\ C17_FallbackIsStderr
    /\ C17_CaptureProceeds

\* The file for the first name could not be created and the capture on the
\* standard error wrapper failed; the dispatcher goes on to the second name.
C17_Witness ==
    /\ output = "file"
    /\ ret # NoSink
    /\ Fallback(ret)
    /\ ret.kind = "stderr"
    /\ ret.err = "write"
    /\ ret.ops = <<"write", "close">>
    /\ EngineCalls(ret.id) = 1
    /\ pc = "writer"
    /\ i = 2

----------------------------------------------------------------------------
\* The stop goroutines that have not run yet, by the sink they own.
PendingStops == {id \in Held : sinks[id].g = "sleep"}

\* A stop goroutine has just run.
StopFired(id) ==
    /\ id \in PendingStops
    /\ (id \notin Held' \/ sinks'[id].g = "done")

C18_SlotHeldByPending ==
    /\ Cardinality(PendingStops) = (IF cpuProfiling = 0 THEN 0 ELSE 1)
    /\ cpuProfiling # 0 =>
           /\ cpuProfiling \in PendingStops
           /\ sinks[cpuProfiling].profile = "cpu"
           /\ sinks[cpuProfiling].err = "nil"
           /\ sinks[cpuProfiling].ops = <<"start">>
    /\ cpuProfiling <= nSinks

C18_StopsItsOwn ==
    \A id \in PendingStops :
        StopFired(id) =>
            /\ cpuProfiling = id
            /\ cpuProfiling' = 0
            /\ \A other \in PendingStops \ {id} :
                   other \in Held' /\ sinks'[other] = sinks[other]

\* C18: a stop goroutine stops the CPU profile that started it.  When the
\* goroutine of a capture runs, the slot is held by that capture: it is
\* neither free nor held by a capture started later; and there are as many
\* goroutines waiting to run as profiles running, none or one.
C18_StopEndsOwnProfile == []C18_SlotHeldByPending /\ [][C18_StopsItsOwn]_vars

\* A later "cpu" capture failed to start while the profile was running, and
\* the goroutine of the running profile has then stopped it.
C18_Witness ==
    /\ fin # NoSink
    /\ fin.g = "done"
    /\ fin.ops = <<"start", "stop", "close">>
    /\ cpuProfiling = 0
    /\ nSinks > fin.id
    /\ ret.err = "start"

----------------------------------------------------------------------------
\* A step of profile() after the engine call: the failure cleanup or the
\* ordinary close.
CleanupStep == InCapture /\ pc # "engine" /\ pc' # pc

C19_OnlyOwnSink ==
    CleanupStep =>
        /\ \A id \in Held \ {w} : id \in Held' /\ sinks'[id] = sinks[id]
        /\ fin' = fin
        /\ cpuProfiling' = cpuProfiling
        /\ closedStreams' = closedStreams
        /\ (w \in Held /\ sinks[w].g = "sleep") =>
               (w \in Held' /\ sinks'[w] = sinks[w])

C19_RemovedOnlyFailed ==
    \A s \in Known :
        /\ Removes(s) > 0 =>
               /\ IsFile(s)
               /\ s.err \notin {None, "nil"}
               /\ Closes(s) = 1
               /\ First(s.ops, "close") < First(s.ops, "remove")
        /\ ~s.exists => (IsFile(s) => Removes(s) = 1)
        /\ s.err = "nil" => (Removes(s) = 0 /\ s.exists = IsFile(s))
        /\ s.g = "sleep" => (s.ops = <<"start">> /\ s.exists = IsFile(s))

\* C19: the failure cleanup of profile() touches the sink of the failed
\* capture and nothing else.  A file is removed only when the engine call
\* on it failed, and after it was closed; the file of a capture that
\* succeeded is never removed; and no step of profile() after the engine
\* call closes or removes the sink of a running CPU profile, the cleanup of
\* a later "cpu" capture that failed to start included.
C19_CleanupIsLocal == []C19_RemovedOnlyFailed /\ [][C19_OnlyOwnSink]_vars

\* The file of the second "cpu" capture, which failed to start, has been
\* closed and removed while the first profile runs, its file untouched.
C19_Witness ==
    /\ cpuProfiling = 1
    /\ 1 \in Held
    /\ IsFile(sinks[1])
    /\ sinks[1].ops = <<"start">>
    /\ sinks[1].exists
    /\ ret.id = 2
    /\ ret.profile = "cpu"
    /\ ret.err = "start"
    /\ ret.ops = <<"close", "remove">>
    /\ ~ret.exists

====
